---- MODULE Spec2Model ----
(***************************************************************************)
(* Shan dictionary converter (dict_convert.py) and dictionary-membership   *)
(* filter (data_verrified.py).                                             *)
(*                                                                         *)
(* A string is a sequence of one-character strings.  "k" and "m" stand for *)
(* code points of the Shan blocks U+1000-109F / U+1A20-1AAF, "A" and "a"   *)
(* for an upper/lower-case Latin pair (outside those blocks), " " for      *)
(* whitespace.  A JSON object is a record; a key that the code never wrote *)
(* is absent from the record's DOMAIN.  A Counter is the sequence of its   *)
(* (key, count) items in insertion order.                                  *)
(***************************************************************************)
EXTENDS Integers, Sequences, FiniteSets, TLC

(* ------------------------------ bounds -------------------------------- *)

\* lines of dictionary.txt
MaxLines == 2
\* records (title + content) of the news dataset
MaxItems == 1

(* --------------------------- input universes -------------------------- *)

Whitespace == {" "}
ShanChars == {"k", "m"}

\* raw lines dictionary.txt may hold (with a blank line and a padded line)
DictLines ==
  { <<"k">>, <<"k", "m">>, <<"a">>, <<"A", " ">>, <<" ">> }

\* titles and contents the dataset may hold
CorpusTexts ==
  { <<"k", " ", "k">>, <<"k", "m">>, <<"A", "k">>, <<"A">> }

RECURSIVE SeqsUpTo(_, _)
SeqsUpTo(S, n) ==
  IF n = 0 THEN { <<>> }
  ELSE LET shorter == SeqsUpTo(S, n - 1)
       IN  shorter \cup { Append(s, x) : s \in shorter, x \in S }

(* --------------------------- str operations --------------------------- *)

\* str.lower(), one character
LowerChar(c) == IF c = "A" THEN "a" ELSE c

\* str.lower()
Lower(s) == [n \in 1..Len(s) |-> LowerChar(s[n])]

RECURSIVE LStrip(_)
LStrip(s) ==
  IF s /= <<>> /\ Head(s) \in Whitespace THEN LStrip(Tail(s)) ELSE s

RECURSIVE RStrip(_)
RStrip(s) ==
  IF s /= <<>> /\ s[Len(s)] \in Whitespace
  THEN RStrip(SubSeq(s, 1, Len(s) - 1)) ELSE s

\* str.strip()
Strip(s) == LStrip(RStrip(s))

\* str.split(): the maximal runs of non-whitespace characters, in order
RECURSIVE SplitFrom(_, _, _)
SplitFrom(s, cur, acc) ==
  IF s = <<>> THEN (IF cur = <<>> THEN acc ELSE Append(acc, cur))
  ELSE IF Head(s) \in Whitespace
       THEN SplitFrom(Tail(s), <<>>, IF cur = <<>> THEN acc ELSE Append(acc, cur))
       ELSE SplitFrom(Tail(s), Append(cur, Head(s)), acc)

Split(s) == SplitFrom(s, <<>>, <<>>)

\* re.sub(r'[^\u1000-\u109F\u1A20-\u1AAF\s]', ' ', text)
CleanText(text) ==
  [n \in 1..Len(text) |->
     IF text[n] \in ShanChars \cup Whitespace THEN text[n] ELSE " "]

\* [x for x in s if P(x)] helpers
RECURSIVE SelectSeqBy(_, _)
SelectSeqBy(s, keep) ==
  IF s = <<>> THEN <<>>
  ELSE IF Head(s) \in keep
       THEN <<Head(s)>> \o SelectSeqBy(Tail(s), keep)
       ELSE SelectSeqBy(Tail(s), keep)

(* ------------------------------ Counter ------------------------------- *)

\* Counter.get(key, 0) / Counter[key]
CounterGet(c, key) ==
  IF \E n \in 1..Len(c) : c[n].key = key
  THEN c[CHOOSE n \in 1..Len(c) : c[n].key = key].count
  ELSE 0

\* Counter[key] += 1
CounterInc(c, key) ==
  IF \E n \in 1..Len(c) : c[n].key = key
  THEN [n \in 1..Len(c) |->
          IF c[n].key = key THEN [c[n] EXCEPT !.count = @ + 1] ELSE c[n]]
  ELSE Append(c, [key |-> key, count |-> 1])

RECURSIVE CounterIncAll(_, _)
CounterIncAll(c, keys) ==
  IF keys = <<>> THEN c
  ELSE CounterIncAll(CounterInc(c, Head(keys)), Tail(keys))

(* ---------------- list.sort(key=..., reverse=True) -------------------- *)

\* faulty variant: the new index goes in front of the indices of equal key
InsertIndexBeforeTies(sorted, idx, keys) ==
  LET p == Cardinality({q \in 1..Len(sorted) : keys[sorted[q]] > keys[idx]})
  IN  SubSeq(sorted, 1, p) \o <<idx>> \o SubSeq(sorted, p + 1, Len(sorted))

\* one insertion of a stable descending sort: the new index goes behind
\* every index whose key is at least as large
InsertIndex(sorted, idx, keys) ==
  LET p == Cardinality({q \in 1..Len(sorted) : keys[sorted[q]] >= keys[idx]})
  IN  SubSeq(sorted, 1, p) \o <<idx>> \o SubSeq(sorted, p + 1, Len(sorted))

RECURSIVE SortedIndices(_, _)
SortedIndices(keys, n) ==
  IF n = 0 THEN <<>>
  ELSE InsertIndex(SortedIndices(keys, n - 1), n, keys)

\* the sequence s reordered by descending keys[n], ties in their order in s
SortDescending(s, keys) ==
  LET perm == SortedIndices(keys, Len(s))
  IN  [n \in 1..Len(s) |-> s[perm[n]]]

\* Counter.most_common()
MostCommon(c) == SortDescending(c, [n \in 1..Len(c) |-> c[n].count])

(* ------------------- dict_convert.py: pure parts ---------------------- *)

None == "None"
Primary == "shannlp"

\* what one call of an external capability did: it raised, or it returned
Raised == [raised |-> TRUE, value |-> <<>>]
Returned(value) == [raised |-> FALSE, value |-> value]

\* [line.strip() for line in f if line.strip()]
ReadWords(lines) ==
  LET stripped == [n \in 1..Len(lines) |-> Strip(lines[n])]
  IN  SelectSeqBy(stripped, {stripped[n] : n \in 1..Len(lines)} \ { <<>> })

\* each non-whitespace character of a text, in order
Characters(text) ==
  LET kept == SelectSeqBy(text, {text[n] : n \in 1..Len(text)} \ Whitespace)
  IN  [n \in 1..Len(kept) |-> <<kept[n]>>]

\* what word_tokenize(text, engine="newmm", keep_whitespace=False) may do:
\* raise, or return one segmentation of the text without its whitespace
word_tokenize(text) == { Raised, Returned(Split(text)), Returned(Characters(text)) }

\* what syllable_tokenize(word) may do: raise, or return a segmentation of
\* the word, possibly an empty one
syllable_tokenize(word) ==
  { Raised, Returned(<<word>>), Returned(Characters(word)), Returned(<<>>) }

\* the fallback of tokenize_text
FallbackTokenize(text) ==
  LET tokens == Split(CleanText(text))
      stripped == [n \in 1..Len(tokens) |-> Strip(tokens[n])]
  IN  SelectSeqBy(stripped, {stripped[n] : n \in 1..Len(tokens)} \ { <<>> })

\* faulty variant: a text whose tokenization raised yields no tokens
tokenize_text_dropping(tk, text, outcome) ==
  IF tk = None THEN FallbackTokenize(text)
  ELSE IF outcome.raised THEN <<>> ELSE outcome.value

\* tokenize_text, given what the primary tokenizer did with this text
tokenize_text(tk, text, outcome) ==
  IF tk /= None /\ ~outcome.raised THEN outcome.value
  ELSE FallbackTokenize(text)

\* segment_syllables, given what the primary segmenter did with this word
segment_syllables(sg, word, outcome) ==
  IF sg /= None /\ ~outcome.raised THEN outcome.value
  ELSE IF word /= <<>> THEN <<word>> ELSE <<>>

\* faulty variant: "for syllable in syllables"
CountedSyllablesOnly(syllables, token) == syllables

\* "for syllable in syllables if syllables else [token]"
CountedSyllables(syllables, token) ==
  IF syllables /= <<>> THEN syllables ELSE <<token>>

\* faulty variant: the token is looked up without regard to case
CountWordIgnoringCase(wc, token, dict_word_set) ==
  IF \E w \in dict_word_set : Lower(w) = Lower(token)
  THEN CounterInc(wc, CHOOSE w \in dict_word_set : Lower(w) = Lower(token))
  ELSE wc

\* "if token in dict_word_set: word_counter[token] += 1"
CountWord(wc, token, dict_word_set) ==
  IF token \in dict_word_set THEN CounterInc(wc, token) ELSE wc

\* dict.update
DictUpdate(d, new) ==
  [key \in DOMAIN d \cup DOMAIN new |->
     IF key \in DOMAIN new THEN new[key] ELSE d[key]]

\* sum(1 for e in entries if e["frequency"] > 0)
WithFrequency(entries) ==
  Cardinality({n \in 1..Len(entries) : entries[n].frequency > 0})

create_basic_json(words) ==
  [ metadata |-> [ total_words |-> Len(words),
                   source |-> "dictionary.txt",
                   phase |-> "basic_conversion" ],
    words |-> [n \in 1..Len(words) |-> [word |-> words[n], frequency |-> 0]],
    syllables |-> <<>> ]

\* lines 183-185: every entry's frequency from the word table
SetWordFrequencies(words, word_frequencies) ==
  [n \in 1..Len(words) |->
     [words[n] EXCEPT !.frequency = CounterGet(word_frequencies, words[n].word)]]

\* line 188
SortWords(words) ==
  SortDescending(words, [n \in 1..Len(words) |-> words[n].frequency])

\* faulty variant: words_with_frequency is counted before the frequencies are set
update_json_counting_first(json, word_frequencies, syllable_frequencies) ==
  LET words == SortWords(SetWordFrequencies(json.words, word_frequencies))
  IN  [json EXCEPT
         !.words = words,
         !.metadata = DictUpdate(json.metadata,
            [ phase |-> "frequency_analysis_complete",
              words_with_frequency |-> WithFrequency(json.words),
              total_syllables |-> Len(syllable_frequencies) ])]

update_json_with_frequencies(json, word_frequencies, syllable_frequencies) ==
  LET words == SortWords(SetWordFrequencies(json.words, word_frequencies))
  IN  [json EXCEPT
         !.words = words,
         !.metadata = DictUpdate(json.metadata,
            [ phase |-> "frequency_analysis_complete",
              words_with_frequency |-> WithFrequency(words),
              total_syllables |-> Len(syllable_frequencies) ])]

generate_syllable_data(syllable_frequencies) ==
  LET items == MostCommon(syllable_frequencies)
  IN  [n \in 1..Len(items) |->
         [syllable |-> items[n].key, frequency |-> items[n].count]]

(* ------------------ data_verrified.py: pure parts --------------------- *)

\* faulty variant: set(word.strip() for word in lines if word.strip())
load_dictionary_as_written(lines) ==
  { Strip(lines[n]) : n \in {m \in 1..Len(lines) : Strip(lines[m]) /= <<>>} }

\* load_dictionary: set(word.strip().lower() for word in lines if word.strip())
load_dictionary(lines) ==
  { Lower(Strip(lines[n])) : n \in {m \in 1..Len(lines) : Strip(lines[m]) /= <<>>} }

\* the loop of lines 29-34: the entries kept (keep = TRUE) or removed
RECURSIVE PartitionSyllables(_, _, _)
PartitionSyllables(entries, dictionary_words, keep) ==
  IF entries = <<>> THEN <<>>
  ELSE LET rest == PartitionSyllables(Tail(entries), dictionary_words, keep)
       IN  IF (Lower(Head(entries).syllable) \in dictionary_words) = keep
           THEN <<Head(entries)>> \o rest
           ELSE rest

\* json_data.get('words', [])
WordsOf(json_data) ==
  IF "words" \in DOMAIN json_data THEN json_data.words ELSE <<>>

\* faulty variant: total_syllables is original_syllable_count
filter_metadata_original_count(json_data, filtered_syllables) ==
  [ total_words |-> Len(WordsOf(json_data)),
    words_with_frequency |-> WithFrequency(WordsOf(json_data)),
    total_syllables |-> Len(json_data.syllables),
    syllables_with_frequency |-> WithFrequency(filtered_syllables),
    phase |-> "dictionary_filtered" ]

\* faulty variant: the phase is not written
filter_metadata_keeping_phase(json_data, filtered_syllables) ==
  [ total_words |-> Len(WordsOf(json_data)),
    words_with_frequency |-> WithFrequency(WordsOf(json_data)),
    total_syllables |-> Len(filtered_syllables),
    syllables_with_frequency |-> WithFrequency(filtered_syllables) ]

\* lines 42-60: the metadata keys the filter writes
filter_metadata(json_data, filtered_syllables) ==
  [ total_words |-> Len(WordsOf(json_data)),
    words_with_frequency |-> WithFrequency(WordsOf(json_data)),
    total_syllables |-> Len(filtered_syllables),
    syllables_with_frequency |-> WithFrequency(filtered_syllables),
    phase |-> "dictionary_filtered" ]

filter_syllables_by_dictionary(json_data, dictionary_words) ==
  IF "syllables" \notin DOMAIN json_data THEN json_data
  ELSE
    LET filtered_syllables ==
          PartitionSyllables(json_data.syllables, dictionary_words, TRUE)
        filtered == [json_data EXCEPT !.syllables = filtered_syllables]
    IN  IF "metadata" \notin DOMAIN json_data THEN filtered
        ELSE [filtered EXCEPT !.metadata =
                DictUpdate(json_data.metadata,
                           filter_metadata(json_data, filtered_syllables))]

\* the entries the filter reports as removed
removed_syllables(json_data, dictionary_words) ==
  IF "syllables" \notin DOMAIN json_data THEN <<>>
  ELSE PartitionSyllables(json_data.syllables, dictionary_words, FALSE)

(* ------------------------------- state -------------------------------- *)

VARIABLES
  dict_file,          \* dictionary.txt: [state, lines]
  dataset,            \* the news dataset: [available, items]
  pc,                 \* position of run_conversion
  tokenizer,          \* self.tokenizer
  syllable_segmenter, \* self.syllable_segmenter
  dictionary_words,   \* self.dictionary_words
  basic_json,         \* run_conversion's basic_json (<<>> while unbound)
  texts,              \* run_conversion's texts
  i,                  \* analyze_frequency: index of the text (from 1)
  tokens,             \* analyze_frequency: tokens of texts[i]
  t,                  \* analyze_frequency: index of the token (from 1)
  word_counter,       \* analyze_frequency's word_counter
  syllable_counter,   \* analyze_frequency's syllable_counter
  output_file,        \* shan_dictionary.json: <<>> or <<document>>
  filter_pc,          \* position of data_verrified.main
  filtered_data,      \* data_verrified.main's filtered_data: <<>> or <<doc>>
  removed,            \* the removed entries the filter reports
  filtered_file,      \* filtered_frequency_data.json: <<>> or <<document>>
  tok_call,           \* the last tokenize_text call of the pass
  seg_call,           \* the last segment_syllables call of the pass
  raised_before,      \* whether a primary capability has raised in this pass
  all_tokens          \* the tokens tokenize_text has returned in this pass

vars ==
  << dict_file, dataset, pc, tokenizer, syllable_segmenter, dictionary_words,
     basic_json, texts, i, tokens, t, word_counter, syllable_counter,
     output_file, filter_pc, filtered_data, removed, filtered_file,
     tok_call, seg_call, raised_before, all_tokens >>

environment == << dict_file, dataset >>
capabilities == << tokenizer, syllable_segmenter >>
loop == << i, tokens, t, word_counter, syllable_counter >>
filter_state == << filter_pc, filtered_data, removed, filtered_file >>
history == << tok_call, seg_call, raised_before, all_tokens >>

NoTokenizerCall ==
  [attempted |-> FALSE, raised |-> FALSE, after_raise |-> FALSE, text |-> <<>>]

NoSegmenterCall ==
  [attempted |-> FALSE, raised |-> FALSE, after_raise |-> FALSE,
   token |-> <<>>, syllables |-> <<>>]

\* the titles and the contents the dataset's records may hold
Titles == { <<"k">> }

Init ==
  /\ dict_file \in
       [state : {"missing", "unreadable"}, lines : { <<>> }]
       \cup [state : {"ok"}, lines : SeqsUpTo(DictLines, MaxLines)]
  /\ dataset \in
       [available : {FALSE}, items : { <<>> }]
       \cup [available : {TRUE},
             items : SeqsUpTo([title : Titles, content : CorpusTexts], MaxItems)]
  /\ pc = "initialize_shannlp"
  /\ tokenizer = None
  /\ syllable_segmenter = None
  /\ dictionary_words = <<>>
  /\ basic_json = <<>>
  /\ texts = <<>>
  /\ i = 0
  /\ tokens = <<>>
  /\ t = 0
  /\ word_counter = <<>>
  /\ syllable_counter = <<>>
  /\ output_file = <<>>
  /\ filter_pc = "main"
  /\ filtered_data = <<>>
  /\ removed = <<>>
  /\ filtered_file = <<>>
  /\ tok_call = NoTokenizerCall
  /\ seg_call = NoSegmenterCall
  /\ raised_before = FALSE
  /\ all_tokens = <<>>

(* --------------------- dict_convert.py: actions ----------------------- *)

\* initialize_shannlp: both tools are bound (lines 50-51), or the handler of
\* lines 53-57 leaves both None, as __init__ set them
initialize_shannlp ==
  /\ pc = "initialize_shannlp"
  /\ \/ /\ tokenizer' = Primary
        /\ syllable_segmenter' = Primary
     \/ /\ tokenizer' = None
        /\ syllable_segmenter' = None
  /\ pc' = "load_dictionary"
  /\ UNCHANGED << environment, dictionary_words, basic_json, texts, loop,
                  output_file, filter_state, history >>

\* load_dictionary, and run_conversion's "if not words: return"
load_words ==
  /\ pc = "load_dictionary"
  /\ \/ /\ dict_file.state /= "ok"
        /\ pc' = "exit"
        /\ UNCHANGED dictionary_words
     \/ /\ dict_file.state = "ok"
        /\ dictionary_words' = ReadWords(dict_file.lines)
        /\ pc' = IF ReadWords(dict_file.lines) = <<>>
                 THEN "exit" ELSE "create_basic_json"
  /\ UNCHANGED << environment, capabilities, basic_json, texts, loop,
                  output_file, filter_state, history >>

\* basic_json = self.create_basic_json(words)
create_json ==
  /\ pc = "create_basic_json"
  /\ basic_json' = create_basic_json(dictionary_words)
  /\ pc' = "load_shan_news_dataset"
  /\ UNCHANGED << environment, capabilities, dictionary_words, texts, loop,
                  output_file, filter_state, history >>

\* texts.append(item['title']); texts.append(item['content'])
RECURSIVE TextsOf(_)
TextsOf(items) ==
  IF items = <<>> THEN <<>>
  ELSE << Head(items).title, Head(items).content >> \o TextsOf(Tail(items))

\* faulty variant: without texts the run returns
AfterDatasetOrExit(loaded) == IF loaded /= <<>> THEN "tokenize" ELSE "exit"

\* run_conversion's "if texts: ... else: ..." (lines 243-255)
AfterDataset(loaded) == IF loaded /= <<>> THEN "tokenize" ELSE "save_json"

\* load_shan_news_dataset, run_conversion's "if texts:" and the first lines
\* of analyze_frequency
load_shan_news_dataset ==
  /\ pc = "load_shan_news_dataset"
  /\ \/ /\ ~dataset.available
        /\ texts' = <<>>
     \/ /\ dataset.available
        /\ texts' = TextsOf(dataset.items)
  /\ pc' = AfterDataset(texts')
  /\ IF pc' = "tokenize"
     THEN /\ i' = 1
          /\ word_counter' = <<>>
          /\ syllable_counter' = <<>>
          /\ UNCHANGED << tokens, t >>
     ELSE UNCHANGED loop
  /\ UNCHANGED << environment, capabilities, dictionary_words, basic_json,
                  output_file, filter_state, history >>

\* the loop position after the token at index n of the text at index k
AfterToken(k, n, toks) ==
  IF n < Len(toks) THEN [pc |-> "count", i |-> k, t |-> n + 1]
  ELSE IF k < Len(texts) THEN [pc |-> "tokenize", i |-> k + 1, t |-> 0]
  ELSE [pc |-> "update", i |-> k, t |-> 0]

\* analyze_frequency, line 161: tokens = self.tokenize_text(text)
tokenize ==
  /\ pc = "tokenize"
  /\ \E outcome \in word_tokenize(texts[i]) :
       LET attempted == tokenizer /= None
           toks == tokenize_text(tokenizer, texts[i], outcome)
           next == AfterToken(i, 0, toks)
       IN  /\ tokens' = toks
           /\ tok_call' = [attempted |-> attempted,
                           raised |-> attempted /\ outcome.raised,
                           after_raise |-> raised_before,
                           text |-> texts[i]]
           /\ all_tokens' = all_tokens \o toks
           /\ raised_before' = (raised_before \/ (attempted /\ outcome.raised))
           /\ pc' = next.pc
           /\ i' = next.i
           /\ t' = next.t
  /\ UNCHANGED << environment, capabilities, dictionary_words, basic_json,
                  texts, word_counter, syllable_counter, output_file,
                  filter_state, seg_call >>

\* analyze_frequency, lines 164-171: one token of the text
count_token ==
  /\ pc = "count"
  /\ \E outcome \in syllable_tokenize(tokens[t]) :
       LET token == tokens[t]
           attempted == syllable_segmenter /= None
           dict_word_set == {dictionary_words[n] : n \in 1..Len(dictionary_words)}
           syllables == segment_syllables(syllable_segmenter, token, outcome)
           next == AfterToken(i, t, tokens)
       IN  /\ word_counter' = CountWord(word_counter, token, dict_word_set)
           /\ syllable_counter' =
                CounterIncAll(syllable_counter, CountedSyllables(syllables, token))
           /\ seg_call' = [attempted |-> attempted,
                           raised |-> attempted /\ outcome.raised,
                           after_raise |-> raised_before,
                           token |-> token,
                           syllables |-> syllables]
           /\ raised_before' = (raised_before \/ (attempted /\ outcome.raised))
           /\ pc' = next.pc
           /\ i' = next.i
           /\ t' = next.t
  /\ UNCHANGED << environment, capabilities, dictionary_words, basic_json,
                  texts, tokens, output_file, filter_state, tok_call,
                  all_tokens >>

\* analyze_frequency returns (its calls are over), then
\* basic_json = self.update_json_with_frequencies(basic_json, word_freq, syllable_freq)
update_json ==
  /\ pc = "update"
  /\ basic_json' =
       update_json_with_frequencies(basic_json, word_counter, syllable_counter)
  /\ pc' = "generate_syllable_data"
  /\ tok_call' = NoTokenizerCall
  /\ seg_call' = NoSegmenterCall
  /\ raised_before' = FALSE
  /\ UNCHANGED << environment, capabilities, dictionary_words, texts, loop,
                  output_file, filter_state, all_tokens >>

\* basic_json["syllables"] = self.generate_syllable_data(syllable_freq)
attach_syllables ==
  /\ pc = "generate_syllable_data"
  /\ basic_json' =
       [basic_json EXCEPT !.syllables = generate_syllable_data(syllable_counter)]
  /\ pc' = "save_json"
  /\ UNCHANGED << environment, capabilities, dictionary_words, texts, loop,
                  output_file, filter_state, history >>

\* save_json: the document is written, or the write raises and is logged;
\* then print_summary, which reads the document and changes nothing
save_json ==
  /\ pc = "save_json"
  /\ \/ output_file' = <<basic_json>>
     \/ UNCHANGED output_file
  /\ pc' = "done"
  /\ UNCHANGED << environment, capabilities, dictionary_words, basic_json,
                  texts, loop, filter_state, history >>

(* -------------------- data_verrified.py: actions ---------------------- *)

\* main: both files exist and load; the syllables are filtered; the result
\* is written, or the write raises and is reported
filter_main ==
  /\ filter_pc = "main"
  /\ output_file /= <<>>
  /\ dict_file.state = "ok"
  /\ LET dictionary == load_dictionary(dict_file.lines)
         json_data == output_file[1]
         result == filter_syllables_by_dictionary(json_data, dictionary)
     IN  /\ filtered_data' = <<result>>
         /\ removed' = removed_syllables(json_data, dictionary)
         /\ \/ filtered_file' = <<result>>
            \/ UNCHANGED filtered_file
  /\ filter_pc' = "done"
  /\ UNCHANGED << environment, pc, capabilities, dictionary_words, basic_json,
                  texts, loop, output_file, history >>

Next ==
  \/ initialize_shannlp
  \/ load_words
  \/ create_json
  \/ load_shan_news_dataset
  \/ tokenize
  \/ count_token
  \/ update_json
  \/ attach_syllables
  \/ save_json
  \/ filter_main

Spec == Init /\ [][Next]_vars

(* ============================== claims ================================ *)

\* run_conversion holds a resource: create_basic_json has returned
HasJson == basic_json /= <<>>

\* update_json_with_frequencies has returned
AfterUpdate ==
  \/ pc = "generate_syllable_data"
  \/ pc \in {"save_json", "done"} /\ texts /= <<>>

\* metadata.get(key, 0), the way print_summary reads a counter (lines 269-270)
MetadataGet(metadata, key) ==
  IF key \in DOMAIN metadata THEN metadata[key] ELSE 0

\* the number of entries with a frequency above 0
Positive(entries) ==
  Cardinality({n \in 1..Len(entries) : entries[n].frequency > 0})

\* the number of elements of s equal to x
Occurrences(s, x) == Cardinality({n \in 1..Len(s) : s[n] = x})

RECURSIVE SumCounts(_)
SumCounts(c) == IF c = <<>> THEN 0 ELSE Head(c).count + SumCounts(Tail(c))

(* ---- C1: syllable counters of the metadata --------------------------- *)

SyllablesConsistent(doc) ==
  /\ MetadataGet(doc.metadata, "total_syllables") = Len(doc.syllables)
  /\ MetadataGet(doc.metadata, "syllables_with_frequency")
       = Positive(doc.syllables)

\* C1: after every Builder operation and after every filter call,
\* metadata.total_syllables == len(syllables) and
\* metadata.syllables_with_frequency == the number of syllable entries with
\* frequency > 0.  A counter the code has not written is read as 0, and
\* the resource is not looked at between update_json_with_frequencies and
\* the attachment of line 253; both only weaken the statement.
C1_SyllableCountersConsistent ==
  /\ (HasJson /\ pc /= "generate_syllable_data")
       => SyllablesConsistent(basic_json)
  /\ filtered_data /= <<>> => SyllablesConsistent(filtered_data[1])

(* ---- C7: word counters of the metadata ------------------------------- *)

WordsConsistent(doc) ==
  /\ "total_words" \in DOMAIN doc.metadata
  /\ doc.metadata.total_words = Len(doc.words)
  /\ "words_with_frequency" \in DOMAIN doc.metadata
  /\ doc.metadata.words_with_frequency = Positive(doc.words)

\* C7 as stated: after create_basic_json, update_json_with_frequencies and
\* filter_syllables_by_dictionary, metadata.total_words == len(words) and
\* metadata.words_with_frequency == the number of word entries with
\* frequency > 0.
C7_WordCountersConsistent ==
  /\ HasJson => WordsConsistent(basic_json)
  /\ filtered_data /= <<>> => WordsConsistent(filtered_data[1])

\* C7 amended: after update_json_with_frequencies and after the filter both
\* counters are present and right; after create_basic_json total_words ==
\* len(words), no word entry has frequency > 0 and the metadata has no
\* words_with_frequency key yet.
C7_WordCountersAmended ==
  /\ (HasJson /\ AfterUpdate) => WordsConsistent(basic_json)
  /\ (HasJson /\ ~AfterUpdate) =>
       /\ basic_json.metadata.total_words = Len(basic_json.words)
       /\ Positive(basic_json.words) = 0
       /\ "words_with_frequency" \notin DOMAIN basic_json.metadata
  /\ filtered_data /= <<>> => WordsConsistent(filtered_data[1])

\* C7 witness: a filtered document and an updated one, each with a word
\* that has a frequency and a word that has none
C7_Witness ==
  /\ pc = "done"
  /\ AfterUpdate
  /\ filtered_data /= <<>>
  /\ filtered_data[1].metadata.words_with_frequency = 1
  /\ filtered_data[1].metadata.total_words = 2
  /\ basic_json.metadata.words_with_frequency = 1

(* ---- C2: word frequencies are the token counts ----------------------- *)

\* C2: after analyze_frequency and update_json_with_frequencies every word
\* entry's frequency is the number of tokens of the corpus exactly equal to
\* the word, and the word counts sum to at most the number of tokens.
C2_WordFrequencyIsTokenCount ==
  AfterUpdate =>
    /\ \A n \in 1..Len(basic_json.words) :
         basic_json.words[n].frequency
           = Occurrences(all_tokens, basic_json.words[n].word)
    /\ SumCounts(word_counter) <= Len(all_tokens)

\* C2 witness: a word counted twice, next to tokens that are no words
C2_Witness ==
  /\ AfterUpdate
  /\ \E n \in 1..Len(basic_json.words) : basic_json.words[n].frequency = 2
  /\ SumCounts(word_counter) < Len(all_tokens)

(* ---- C5: the words after the update ---------------------------------- *)

\* C5: after update_json_with_frequencies the words are a permutation of
\* the word list, every entry with a frequency, ordered by non-increasing
\* frequency, entries of equal frequency in the order of the word list.
C5_WordsStablySorted ==
  AfterUpdate =>
    LET words == basic_json.words
        N == Len(dictionary_words)
    IN  /\ Len(words) = N
        /\ \A n \in 1..N : words[n].frequency \in Nat
        /\ \E perm \in [1..N -> 1..N] :
             /\ \A n, m \in 1..N : perm[n] = perm[m] => n = m
             /\ \A n \in 1..N : words[n].word = dictionary_words[perm[n]]
             /\ \A n, m \in 1..N :
                  n < m =>
                    /\ words[n].frequency >= words[m].frequency
                    /\ words[n].frequency = words[m].frequency
                         => perm[n] < perm[m]

\* C5 witness: two different words tie on a frequency above 0
C5_Witness ==
  /\ AfterUpdate
  /\ Len(basic_json.words) >= 2
  /\ basic_json.words[1].word /= basic_json.words[2].word
  /\ basic_json.words[1].frequency = basic_json.words[2].frequency
  /\ basic_json.words[1].frequency > 0

(* ---- C3: what the filter keeps --------------------------------------- *)

\* the words of dictionary.txt: its lines without surrounding whitespace,
\* blank lines left out
FileWords(lines) ==
  {Strip(lines[n]) : n \in 1..Len(lines)} \ { <<>> }

\* the j-th smallest element of a set of numbers
NthOf(K, j) == CHOOSE x \in K : Cardinality({y \in K : y < x}) = j - 1

\* whether out is s restricted to the positions K, in the order of s
IsRestriction(out, s, K) ==
  /\ Len(out) = Cardinality(K)
  /\ \A j \in 1..Len(out) : out[j] = s[NthOf(K, j)]

\* C3: the filter returns exactly the input entries whose syllable is,
\* compared case-insensitively, a word of the dictionary, in their original
\* order and unchanged; every other entry is removed; the words are left
\* as they were.
C3_FilterKeepsDictionarySyllables ==
  filtered_data /= <<>> =>
    LET input == output_file[1]
        result == filtered_data[1]
        words == FileWords(dict_file.lines)
        kept == {n \in 1..Len(input.syllables) :
                   \E w \in words : Lower(w) = Lower(input.syllables[n].syllable)}
    IN  /\ IsRestriction(result.syllables, input.syllables, kept)
        /\ IsRestriction(removed, input.syllables,
                         (1..Len(input.syllables)) \ kept)
        /\ result.words = input.words

\* C3 witness: an entry is kept whose syllable differs in case from every
\* word of the dictionary, and an entry is removed
C3_Witness ==
  /\ filtered_data /= <<>>
  /\ removed /= <<>>
  /\ \E n \in 1..Len(filtered_data[1].syllables) :
       filtered_data[1].syllables[n].syllable \notin FileWords(dict_file.lines)

(* ---- C4: the filter is idempotent ------------------------------------ *)

\* every set of lower-case words over the model's characters
DictionarySets == SUBSET { <<"k">>, <<"m">>, <<"k", "m">>, <<"a">> }

\* the resources the program produces: the builder's resource as each of
\* create_basic_json, update_json_with_frequencies and the attachment of
\* line 253 leaves it (the last is the document written), and the filter's
Resources ==
  (IF pc \in {"load_shan_news_dataset", "generate_syllable_data", "save_json"}
   THEN {basic_json} ELSE {})
    \cup {filtered_data[n] : n \in 1..Len(filtered_data)}

\* C4: filtering twice with the same dictionary set gives the resource
\* (words, syllables, every metadata field) that filtering once gives.
C4_FilterIdempotent ==
  \A doc \in Resources : \A dictionary \in DictionarySets :
    LET once == filter_syllables_by_dictionary(doc, dictionary)
    IN  filter_syllables_by_dictionary(once, dictionary) = once

\* C4 witness: a resource of two syllables from which the filter of main
\* removed one and kept one
C4_Witness ==
  /\ filtered_data /= <<>>
  /\ removed /= <<>>
  /\ filtered_data[1].syllables /= <<>>
  /\ Len(output_file[1].syllables) >= 2

(* ---- C6: every token reaches the syllable table ---------------------- *)

\* C6: each token adds to the syllable table, dictionary word or not: for
\* every syllable s its count grows by the occurrences of s in the token's
\* segmentation, an empty segmentation standing for the token itself, so
\* every token adds at least one count.  (The table starts empty, so its
\* counts are the occurrences over all tokens.)
C6_EveryTokenCountsSyllables ==
  [][ (pc = "count" /\ <<pc, i, t>>' /= <<pc, i, t>>) =>
        LET token == tokens[t]
            segmentation == IF seg_call'.syllables = <<>>
                            THEN <<token>> ELSE seg_call'.syllables
            keys == {syllable_counter'[n].key : n \in 1..Len(syllable_counter')}
                      \cup {segmentation[n] : n \in 1..Len(segmentation)}
        IN  /\ seg_call'.token = token
            /\ \A s \in keys :
                 CounterGet(syllable_counter', s)
                   = CounterGet(syllable_counter, s) + Occurrences(segmentation, s)
            /\ SumCounts(syllable_counter') > SumCounts(syllable_counter)
    ]_vars

\* C6 witness: the primary segmenter returned nothing for a token that is
\* no dictionary word, and the token was counted as its own syllable
C6_Witness ==
  /\ seg_call.attempted
  /\ ~seg_call.raised
  /\ seg_call.syllables = <<>>
  /\ seg_call.token /= <<>>
  /\ seg_call.token \notin {dictionary_words[n] : n \in 1..Len(dictionary_words)}
  /\ CounterGet(syllable_counter, seg_call.token) >= 1

(* ---- C8: no corpus --------------------------------------------------- *)

\* C8: with a non-empty word list and a corpus source that yields no texts
\* the run goes on to the save step with the skeleton: phase
\* "basic_conversion", no syllables, every word with frequency 0 in input
\* order; that is the resource persisted.
C8_NoCorpusSavesSkeleton ==
  LET skeleton(doc) ==
        /\ doc.metadata.phase = "basic_conversion"
        /\ doc.syllables = <<>>
        /\ doc.words = [n \in 1..Len(dictionary_words) |->
                          [word |-> dictionary_words[n], frequency |-> 0]]
  IN  (HasJson /\ pc /= "load_shan_news_dataset" /\ texts = <<>>) =>
        /\ pc \in {"save_json", "done"}
        /\ skeleton(basic_json)
        /\ output_file /= <<>> => skeleton(output_file[1])

\* C8 witness: the dataset could not be loaded, and the skeleton of a list
\* of two words has been written
C8_Witness ==
  /\ pc = "done"
  /\ ~dataset.available
  /\ texts = <<>>
  /\ Len(dictionary_words) = 2
  /\ output_file = <<basic_json>>

(* ---- C9: the phase --------------------------------------------------- *)

PhaseRank(phase) ==
  CASE phase = "basic_conversion" -> 1
    [] phase = "frequency_analysis_complete" -> 2
    [] phase = "dictionary_filtered" -> 3
    [] OTHER -> 0

\* the label of the stage run_conversion completed last
LastBuilderStage ==
  IF AfterUpdate THEN "frequency_analysis_complete" ELSE "basic_conversion"

C10_FailureIsLocal ==
  /\ tok_call.raised => tokens = FallbackTokenize(tok_call.text)
  /\ seg_call.raised => seg_call.syllables = <<seg_call.token>>
  /\ (tok_call.after_raise /\ tok_call.text /= <<>>) => tok_call.attempted
  /\ (seg_call.after_raise /\ seg_call.token /= <<>>) => seg_call.attempted
  /\ raised_before => (tokenizer = Primary /\ syllable_segmenter = Primary)
  /\ pc \in {"tokenize", "count"} => i <= Len(texts)
  /\ pc = "update" =>
       /\ i = Len(texts)
       /\ tok_call.text = texts[i]
       /\ SumCounts(syllable_counter) >= Len(all_tokens)

\* C10 witness: the pass has ended; a primary capability raised before the
\* last text, and the last text was still tokenized by the primary
\* tokenizer, not as the fallback would
C10_Witness ==
  /\ pc = "update"
  /\ tok_call.after_raise
  /\ tok_call.attempted
  /\ ~tok_call.raised
  /\ tokens /= FallbackTokenize(tok_call.text)

====
